---- MODULE Spec2Model ----
(***************************************************************************)
(* Per-request credential resolution of meta-ads-mcp:                      *)
(*   - FastMCPAuthIntegration (the context-variable store and the header   *)
(*     extractor), the HTTP-aware get_current_access_token replacement and *)
(*     AuthInjectionMiddleware.dispatch, from                              *)
(*     meta_ads_mcp/core/http_auth_integration.py.                         *)
(* Strings are sequences of one-character strings; Python's None is the    *)
(* value None below, which is no string.                                   *)
(***************************************************************************)
EXTENDS Integers, Sequences, FiniteSets, TLC

VARIABLES
    pc,         \* per in-flight slot: where its request's dispatch stands
    token,      \* per slot: dispatch's local variable `token`
    ctx,        \* per slot: value of _auth_token in that request's context
    outcome,    \* per slot: how call_next ended for the request
    res,        \* per slot: the request's latest call of the facade
    prev,       \* per slot, for a request without a credential: lastDone as it was when it arrived
    lastDone,   \* how the last request that carried a credential ended ("none": no such request yet)
    cached,     \* the Auth Manager's process-wide cached credential
    sets,       \* per slot: calls of set_auth_token made by the request's dispatch
    clears,     \* per slot: calls of clear_auth_token made by the request's dispatch
    down,       \* per slot: what call_next ended with
    up,         \* per slot: what dispatch ended with, for its caller
    mpc,        \* where main is: "main", "setup", "run", "starting", "serving", "exited"
    transport,  \* args.transport
    sse_response,       \* args.sse_response
    json_response,      \* mcp_server.settings.json_response
    provider_present,   \* mcp_server has the app provider method that is looked for
    run_patched,        \* mcp_server.run is patched_run
    patched_provider,   \* the app provider method that was wrapped, or "none"
    facade,             \* get_current_access_token is the HTTP-aware replacement
    bindings,           \* per module: what its name get_current_access_token is bound to
    user_middleware,    \* app.user_middleware: the classes, first is outermost
    ran,                \* the transport mcp_server.run was called with, or "none"
    failed,             \* the failures of the setup that occurred
    logged,             \* the errors that were logged
    provider_calls,     \* calls of an app provider method
    setup_calls,        \* calls of setup_starlette_middleware with the app
    added,              \* calls of app.add_middleware that succeeded
    app_ok,             \* the last app provider call returned an app
    headers,    \* extractor run: the header dictionary handed to the extractor
    extracted,  \* extractor run: what extract_token_from_headers returned
    xpc,        \* extractor run: "build" while the dictionary is filled, then "done"
    lpc,        \* login: where main is between the token check and the transport branch
    pipeboard_api_token,    \* login: PIPEBOARD_API_TOKEN is set in the environment
    authorized, \* login: the user has completed the authorization in the browser
    attempt,    \* login: iterations of the polling loop begun
    calls,      \* login: calls of get_access_token(force_refresh=True)
    poll_token, \* login: main's local variable `token`
    calls_at_token,     \* login: `calls` when a call first returned a token, 0 if none did
    sleeps,     \* login: calls of time.sleep
    slept,      \* login: seconds slept in all
    login_log,  \* login: what main reported about the login
    tpc,        \* tool: where the call of create_budget_schedule stands
    args,       \* tool: the arguments of the call
    api_calls,  \* tool: calls of make_api_request made by the call
    api_params, \* tool: the params handed to make_api_request
    tool_result,    \* tool: how the call of create_budget_schedule ended
    hpc,        \* handler: "build" while the next call's headers are put together, then "done"
    hheaders,   \* handler: request_headers of the call
    hbody,      \* handler: request_body of the call
    response,   \* handler: what handle_request returned
    self_state, \* handler: the attributes of the StreamableHTTPHandler instance
    served      \* handler: the auth methods of the calls handled before

loginVars == <<lpc, pipeboard_api_token, authorized, attempt, calls, poll_token,
               calls_at_token, sleeps, slept, login_log>>
toolVars == <<tpc, args, api_calls, api_params, tool_result>>
hdlVars == <<hpc, hheaders, hbody, response, self_state, served>>
auxVars == <<loginVars, toolVars, hdlVars>>
srvVars == <<mpc, transport, sse_response, json_response, provider_present,
             run_patched, patched_provider, facade, bindings, user_middleware,
             ran, failed, logged, provider_calls, setup_calls, added, app_ok>>
vars == <<pc, token, ctx, outcome, res, prev, lastDone, cached, sets, clears, down, up,
          headers, extracted, xpc, srvVars, auxVars>>
reqVars == <<pc, token, ctx, outcome, res, prev, lastDone, cached, sets, clears,
            down, up>>
outVars == <<down, up>>
callVars == <<sets, clears>>
extVars == <<headers, extracted, xpc>>

----------------------------------------------------------------------------
(* Bounds *)

MaxInFlight == 2    \* requests handled concurrently
MaxHeaders == 3     \* entries of a header dictionary of the extractor run
MaxBody == 2        \* characters following the scheme prefix of a header value
MaxAttach == 2      \* calls of an app provider method, and of setup_starlette_middleware
MaxServed == 1      \* requests handled concurrently by the server that main started

----------------------------------------------------------------------------
(* Python values *)

None == <<"None">>

Truthy(v) == v # None /\ v # <<>>

\* an `or` that passes over a missing value only, not over an empty one
Or_if_missing(a, b) == IF a # None THEN a ELSE b

\* Python's `a or b`
Or(a, b) == IF Truthy(a) THEN a ELSE b

\* dict.get(key): None when the key is missing
Get(h, k) == IF k \in DOMAIN h THEN h[k] ELSE None

LowerChar(c) ==
    CASE c = "B" -> "b"
      [] c = "E" -> "e"
      [] c = "A" -> "a"
      [] c = "R" -> "r"
      [] c = "S" -> "s"
      [] c = "I" -> "i"
      [] c = "C" -> "c"
      [] c = "T" -> "t"
      [] OTHER -> c

\* str.lower()
Lower(s) == [i \in 1..Len(s) |-> LowerChar(s[i])]

\* str.startswith(p)
StartsWith(s, p) == Len(s) >= Len(p) /\ SubSeq(s, 1, Len(p)) = p

\* s[n:]
From(s, n) == SubSeq(s, n + 1, Len(s))

Whitespace == {" ", "\t"}

RECURSIVE LStrip(_)
LStrip(s) == IF s # <<>> /\ Head(s) \in Whitespace THEN LStrip(Tail(s)) ELSE s

RECURSIVE RStrip(_)
RStrip(s) ==
    IF s # <<>> /\ s[Len(s)] \in Whitespace THEN RStrip(SubSeq(s, 1, Len(s) - 1)) ELSE s

\* str.strip()
Strip(s) == RStrip(LStrip(s))

bearer_ == <<"b", "e", "a", "r", "e", "r", " ">>

----------------------------------------------------------------------------
(* FastMCPAuthIntegration.extract_token_from_headers *)

\* the variant that looks at the token headers before the Bearer header
extract_token_headers_first(h) ==
    LET auth_header == Or(Or(Get(h, "Authentication"), Get(h, "authentication")),
                          Get(h, "authorization"))
        meta_token == Or(Get(h, "X-META-ACCESS-TOKEN"), Get(h, "x-meta-access-token"))
        pipeboard_token == Or(Get(h, "X-PIPEBOARD-API-TOKEN"), Get(h, "x-pipeboard-api-token"))
    IN  IF Truthy(meta_token) THEN meta_token
        ELSE IF Truthy(pipeboard_token) THEN pipeboard_token
        ELSE IF Truthy(auth_header) /\ StartsWith(Lower(auth_header), bearer_)
             THEN Strip(From(auth_header, 7))
        ELSE None

\* the variant that gives up when the Bearer header has another scheme
extract_token_abort_on_scheme(h) ==
    LET auth_header == Or(Or(Get(h, "Authentication"), Get(h, "authentication")),
                          Get(h, "authorization"))
        meta_token == Or(Get(h, "X-META-ACCESS-TOKEN"), Get(h, "x-meta-access-token"))
        pipeboard_token == Or(Get(h, "X-PIPEBOARD-API-TOKEN"), Get(h, "x-pipeboard-api-token"))
    IN  IF Truthy(auth_header)
        THEN IF StartsWith(Lower(auth_header), bearer_)
             THEN Strip(From(auth_header, 7)) ELSE None
        ELSE IF Truthy(meta_token) THEN meta_token
        ELSE IF Truthy(pipeboard_token) THEN pipeboard_token
        ELSE None

\* the variant that looks at the legacy header before the direct one
extract_token_legacy_first(h) ==
    LET auth_header == Or(Or(Get(h, "Authentication"), Get(h, "authentication")),
                          Get(h, "authorization"))
        meta_token == Or(Get(h, "X-META-ACCESS-TOKEN"), Get(h, "x-meta-access-token"))
        pipeboard_token == Or(Get(h, "X-PIPEBOARD-API-TOKEN"), Get(h, "x-pipeboard-api-token"))
    IN  IF Truthy(auth_header) /\ StartsWith(Lower(auth_header), bearer_)
        THEN Strip(From(auth_header, 7))
        ELSE IF Truthy(pipeboard_token) THEN pipeboard_token
        ELSE IF Truthy(meta_token) THEN meta_token
        ELSE None

\* the variant that trims the token headers as it trims the Bearer token
extract_token_trimmed(h) ==
    LET auth_header == Or(Or(Get(h, "Authentication"), Get(h, "authentication")),
                          Get(h, "authorization"))
        meta_token == Or(Get(h, "X-META-ACCESS-TOKEN"), Get(h, "x-meta-access-token"))
        pipeboard_token == Or(Get(h, "X-PIPEBOARD-API-TOKEN"), Get(h, "x-pipeboard-api-token"))
    IN  IF Truthy(auth_header) /\ StartsWith(Lower(auth_header), bearer_)
        THEN Strip(From(auth_header, 7))
        ELSE IF Truthy(meta_token) THEN Strip(meta_token)
        ELSE IF Truthy(pipeboard_token) THEN Strip(pipeboard_token)
        ELSE None

\* the variant that cuts the prefix off without testing for it
extract_token_no_scheme_test(h) ==
    LET auth_header == Or(Or(Get(h, "Authentication"), Get(h, "authentication")),
                          Get(h, "authorization"))
        meta_token == Or(Get(h, "X-META-ACCESS-TOKEN"), Get(h, "x-meta-access-token"))
        pipeboard_token == Or(Get(h, "X-PIPEBOARD-API-TOKEN"), Get(h, "x-pipeboard-api-token"))
    IN  IF Truthy(auth_header)
        THEN Strip(From(auth_header, 7))
        ELSE IF Truthy(meta_token) THEN meta_token
        ELSE IF Truthy(pipeboard_token) THEN pipeboard_token
        ELSE None

extract_token_from_headers(h) ==
    LET auth_header == Or(Or(Get(h, "Authentication"), Get(h, "authentication")),
                          Get(h, "authorization"))
        meta_token == Or(Get(h, "X-META-ACCESS-TOKEN"), Get(h, "x-meta-access-token"))
        pipeboard_token == Or(Get(h, "X-PIPEBOARD-API-TOKEN"), Get(h, "x-pipeboard-api-token"))
    IN  IF Truthy(auth_header) /\ StartsWith(Lower(auth_header), bearer_)
        THEN Strip(From(auth_header, 7))
        ELSE IF Truthy(meta_token) THEN meta_token
        ELSE IF Truthy(pipeboard_token) THEN pipeboard_token
        ELSE None

----------------------------------------------------------------------------
(* The request-scoped store: _auth_token, a ContextVar.  Every request is  *)
(* served by a task of its own, whose context is a copy of the server's,   *)
(* in which _auth_token was never set.                                     *)

Slots == 1..MaxInFlight

\* ContextVar('auth_token', default=None)
auth_token_default == None

\* a store that is one cell of the process, shared by every request
set_auth_token_shared(c, s, tok) == [q \in DOMAIN c |-> tok]

\* _auth_token.set(token), in the context of the request in slot s
set_auth_token(c, s, tok) == [c EXCEPT ![s] = tok]

\* _auth_token.get(None)
get_auth_token(c, s) == c[s]

\* a clear that empties the one cell of the process
clear_auth_token_shared(c, s) == [q \in DOMAIN c |-> None]

\* a clear that stores an empty string where the default is None
clear_auth_token_blank(c, s) == [c EXCEPT ![s] = <<>>]

\* _auth_token.set(None)
clear_auth_token(c, s) == [c EXCEPT ![s] = None]

----------------------------------------------------------------------------
(* The Auth Manager (auth.get_current_access_token, the accessor the       *)
(* facade falls back to): it returns the process-wide cached credential,   *)
(* or empty when there is none.                                            *)

CachedToken == <<"p">>
CachedValues == {None, CachedToken}

original_get_current_access_token == cached

----------------------------------------------------------------------------
(* setup_http_auth_patching.get_current_access_token_with_http_support     *)

Pending == <<"Pending">>

NoCall == [called |-> FALSE, store |-> None, original |-> FALSE, origResult |-> None, result |-> None]

\* the accessor as it is without the patch: the store is not looked at
resolve_unpatched(c, s) ==
    [called |-> TRUE, store |-> get_auth_token(c, s), original |-> TRUE,
     origResult |-> Pending, result |-> Pending]

\* lines 113-118 up to the await: the record of the call, with the result
\* Pending while original_get_current_access_token is awaited
resolve(c, s) ==
    LET context_token == get_auth_token(c, s)
    IN  IF Truthy(context_token)
        THEN [called |-> TRUE, store |-> context_token, original |-> FALSE,
              origResult |-> None, result |-> context_token]
        ELSE [called |-> TRUE, store |-> context_token, original |-> TRUE,
              origResult |-> Pending, result |-> Pending]

\* a read that takes the token out of the store
resolve_store_consuming(c, s) == clear_auth_token(c, s)

\* lines 113-118: the store after the call; get_auth_token is the only
\* store operation the replacement calls
resolve_store(c, s) == c

\* a fallback that yields nothing
resolve_return_nothing(r, v) == [r EXCEPT !.origResult = v, !.result = None]

\* line 118: `return await original_get_current_access_token()`
resolve_return(r, v) == [r EXCEPT !.origResult = v, !.result = v]

----------------------------------------------------------------------------
(* AuthInjectionMiddleware.dispatch *)

TokA == <<"t">>
TokB == <<"m">>
Bearer_ == <<"B", "e", "a", "r", "e", "r", " ">>

EmptyDict == [k \in {} |-> None]

\* the header dictionaries of the requests served (dict(request.headers):
\* Starlette gives the names in lower case): no credential, a Bearer token,
\* a direct token, and a Bearer header with nothing but a blank after the prefix
RequestHeaderSets ==
    { EmptyDict,
      "authorization" :> (Bearer_ \o TokA),
      "x-meta-access-token" :> TokB,
      "authorization" :> (Bearer_ \o <<" ">>) }

Outcomes == {"returned", "raised", "cancelled"}

\* cleanup written as `except Exception:`, which a cancellation passes by
dispatch_cleanup_except_exception(c, s, tok, how) ==
    IF Truthy(tok) /\ how # "cancelled" THEN clear_auth_token(c, s) ELSE c

\* line 206: `if token:`
entry_sets(tok) == Truthy(tok)

\* a finally block that clears whether or not a token was set
finally_clears_always(tok, how) == TRUE

\* a cleanup that is reached on the success path only
finally_clears_on_success(tok, how) == Truthy(tok) /\ how = "returned"

\* line 217: `if token:`, whichever way call_next was left
finally_clears(tok, how) == Truthy(tok)

NoOutcome == [kind |-> "none", of |-> 0]

\* the response, the exception or the cancellation that the call_next of the
\* request in slot s ended with
Produced(how, s) == [kind |-> how, of |-> s]

\* a dispatch that answers a downstream exception with a response of its own
dispatch_gives_error_response(d) == IF d.kind = "raised" THEN [d EXCEPT !.kind = "returned"] ELSE d

\* lines 213-218: `return response` in the try block; the finally block
\* neither returns nor raises, so an exception of call_next goes on
dispatch_gives(d) == d

\* lines 216-218: the finally block, on every way out of call_next
dispatch_finally(c, s, tok, how) ==
    IF finally_clears(tok, how) THEN clear_auth_token(c, s) ELSE c

\* lines 204-214: extraction, set_auth_token, and the suspension in call_next
DispatchEnter(s, h) ==
    /\ pc[s] = "idle"
    /\ LET tok == extract_token_from_headers(h)
           fresh == [ctx EXCEPT ![s] = auth_token_default]
       IN  /\ token' = [token EXCEPT ![s] = tok]
           /\ ctx' = IF entry_sets(tok) THEN set_auth_token(fresh, s, tok) ELSE fresh
           /\ sets' = [sets EXCEPT ![s] = IF entry_sets(tok) THEN @ + 1 ELSE @]
    /\ pc' = [pc EXCEPT ![s] = "handler"]
    /\ prev' = [prev EXCEPT ![s] =
                    IF Truthy(extract_token_from_headers(h)) THEN "none" ELSE lastDone]
    /\ UNCHANGED <<outcome, res, lastDone, cached, clears, outVars, extVars, srvVars, auxVars>>

\* the downstream tool calls the facade
Resolve(s) ==
    /\ pc[s] = "handler"
    /\ LET r == resolve(ctx, s)
       IN  /\ res' = [res EXCEPT ![s] = r]
           /\ pc' = [pc EXCEPT ![s] = IF r.original THEN "awaiting" ELSE "handler"]
    /\ ctx' = resolve_store(ctx, s)
    /\ UNCHANGED <<token, outcome, prev, lastDone, cached, callVars, outVars, extVars, srvVars, auxVars>>

\* the awaited accessor returns to the facade
OriginalReturns(s) ==
    /\ pc[s] = "awaiting"
    /\ res' = [res EXCEPT ![s] = resolve_return(@, original_get_current_access_token)]
    /\ pc' = [pc EXCEPT ![s] = "handler"]
    /\ UNCHANGED <<token, ctx, outcome, prev, lastDone, cached, callVars, outVars, extVars, srvVars, auxVars>>

\* call_next is left: the finally block runs and dispatch ends
Leave(s, how) ==
    /\ ctx' = dispatch_finally(ctx, s, token[s], how)
    /\ pc' = [pc EXCEPT ![s] = "done"]
    /\ outcome' = [outcome EXCEPT ![s] = how]
    /\ res' = [res EXCEPT ![s] = NoCall]
    /\ lastDone' = IF Truthy(token[s]) THEN how ELSE lastDone
    /\ clears' = [clears EXCEPT ![s] = IF finally_clears(token[s], how) THEN @ + 1 ELSE @]
    /\ down' = [down EXCEPT ![s] = Produced(how, s)]
    /\ up' = [up EXCEPT ![s] = dispatch_gives(Produced(how, s))]
    /\ UNCHANGED <<token, prev, cached, sets, extVars, srvVars, auxVars>>

\* line 215: the downstream handler answered
HandlerReturns(s) == pc[s] = "handler" /\ Leave(s, "returned")

\* the downstream handler, or the accessor it awaits, raised
HandlerRaises(s) == pc[s] \in {"handler", "awaiting"} /\ Leave(s, "raised")

\* the request is aborted while call_next is suspended
Cancelled(s) == pc[s] \in {"handler", "awaiting"} /\ Leave(s, "cancelled")

\* the task of the request ends; the slot serves the next request
TaskEnds(s) ==
    /\ pc[s] = "done"
    /\ pc' = [pc EXCEPT ![s] = "idle"]
    /\ token' = [token EXCEPT ![s] = None]
    /\ ctx' = [ctx EXCEPT ![s] = auth_token_default]
    /\ outcome' = [outcome EXCEPT ![s] = "none"]
    /\ prev' = [prev EXCEPT ![s] = "none"]
    /\ sets' = [sets EXCEPT ![s] = 0]
    /\ clears' = [clears EXCEPT ![s] = 0]
    /\ down' = [down EXCEPT ![s] = NoOutcome]
    /\ up' = [up EXCEPT ![s] = NoOutcome]
    /\ UNCHANGED <<res, lastDone, cached, extVars, srvVars, auxVars>>

\* the Auth Manager caches, refreshes or drops its credential
AuthManagerUpdates(v) ==
    /\ cached # v
    /\ cached' = v
    /\ UNCHANGED <<pc, token, ctx, outcome, res, prev, lastDone, callVars, outVars, extVars, srvVars, auxVars>>

\* no extractor run of the second specification is under way
InitExtractor ==
    /\ headers = EmptyDict
    /\ extracted = None
    /\ xpc = "build"

----------------------------------------------------------------------------
(* main (server.py), from the check for a Pipeboard token to the transport *)
(* branch: the browser login and the polling loop that waits for its token *)

LoginToken == <<"l">>

\* server.py line 296
max_attempts == 30

\* server.py line 303: the argument of time.sleep
poll_delay == 2

\* server.py line 297: `for attempt in range(max_attempts)`
loop_continues(n) == n < max_attempts

\* a test that never sees the token
poll_succeeded_never(tok) == FALSE

\* server.py line 300: `if token:`, which breaks out of the loop
poll_succeeded(tok) == Truthy(tok)

\* server.py lines 276-280: without PIPEBOARD_API_TOKEN, or with a token the
\* Pipeboard auth manager already has, there is no login
LoginCheck(tok) ==
    /\ lpc = "check"
    /\ poll_token' = IF pipeboard_api_token THEN tok ELSE None
    /\ lpc' = IF pipeboard_api_token /\ ~Truthy(tok) THEN "initiate" ELSE "startup"
    /\ UNCHANGED <<pipeboard_api_token, authorized, attempt, calls, calls_at_token,
                   sleeps, slept, login_log, reqVars, extVars, srvVars, toolVars, hdlVars>>

\* server.py lines 283-293 and 308-313: initiate_auth_flow returns a login
\* URL ("url"), returns none ("nourl") or raises ("raises")
InitiateAuthFlow(how) ==
    /\ lpc = "initiate"
    /\ lpc' = IF how = "url" THEN "poll" ELSE "startup"
    /\ login_log' = IF how = "url" THEN login_log
                    ELSE IF how = "nourl" THEN login_log \cup {"no_login_url"}
                    ELSE login_log \cup {"initiate_raised"}
    /\ UNCHANGED <<pipeboard_api_token, authorized, attempt, calls, poll_token,
                   calls_at_token, sleeps, slept, reqVars, extVars, srvVars, toolVars, hdlVars>>

\* the user completes the authorization in the browser
UserAuthorizes ==
    /\ lpc \in {"poll", "test", "sleep"}
    /\ ~authorized
    /\ authorized' = TRUE
    /\ UNCHANGED <<lpc, pipeboard_api_token, attempt, calls, poll_token, calls_at_token,
                   sleeps, slept, login_log, reqVars, extVars, srvVars, toolVars, hdlVars>>

\* server.py lines 297-299: the next iteration calls
\* get_access_token(force_refresh=True), which returns the token once the
\* user has authorized, returns nothing, or raises (caught at line 311)
PollAttempt(how) ==
    /\ lpc = "poll"
    /\ loop_continues(attempt)
    /\ how = "token" => authorized
    /\ attempt' = attempt + 1
    /\ calls' = calls + 1
    /\ poll_token' = IF how = "token" THEN LoginToken ELSE None
    /\ calls_at_token' = IF how = "token" /\ calls_at_token = 0 THEN calls + 1
                         ELSE calls_at_token
    /\ lpc' = IF how = "raises" THEN "startup" ELSE "test"
    /\ login_log' = IF how = "raises" THEN login_log \cup {"poll_raised"} ELSE login_log
    /\ UNCHANGED <<pipeboard_api_token, authorized, sleeps, slept, reqVars, extVars, srvVars, toolVars, hdlVars>>

\* server.py lines 300-302: the test of the token, and the break
PollTest ==
    /\ lpc = "test"
    /\ lpc' = IF poll_succeeded(poll_token) THEN "after" ELSE "sleep"
    /\ login_log' = IF poll_succeeded(poll_token) THEN login_log \cup {"successful"}
                    ELSE login_log
    /\ UNCHANGED <<pipeboard_api_token, authorized, attempt, calls, poll_token,
                   calls_at_token, sleeps, slept, reqVars, extVars, srvVars, toolVars, hdlVars>>

\* server.py line 303: time.sleep(2)
PollSleep ==
    /\ lpc = "sleep"
    /\ sleeps' = sleeps + 1
    /\ slept' = slept + poll_delay
    /\ lpc' = "poll"
    /\ UNCHANGED <<pipeboard_api_token, authorized, attempt, calls, poll_token,
                   calls_at_token, login_log, reqVars, extVars, srvVars, toolVars, hdlVars>>

\* server.py line 297: range(max_attempts) is exhausted
PollExhausted ==
    /\ lpc = "poll"
    /\ ~loop_continues(attempt)
    /\ lpc' = "after"
    /\ UNCHANGED <<pipeboard_api_token, authorized, attempt, calls, poll_token,
                   calls_at_token, sleeps, slept, login_log, reqVars, extVars, srvVars, toolVars, hdlVars>>

\* server.py lines 305-307: without a token main reports the timeout; it
\* goes on to the transport branch either way
AfterPoll ==
    /\ lpc = "after"
    /\ login_log' = IF ~Truthy(poll_token) THEN login_log \cup {"timed_out"} ELSE login_log
    /\ lpc' = "startup"
    /\ UNCHANGED <<pipeboard_api_token, authorized, attempt, calls, poll_token,
                   calls_at_token, sleeps, slept, reqVars, extVars, srvVars, toolVars, hdlVars>>

\* the steps of main: a sequential program that goes on as long as it can
MainLoginStep ==
    \/ \E tok \in {None, LoginToken} : LoginCheck(tok)
    \/ \E how \in {"url", "nourl", "raises"} : InitiateAuthFlow(how)
    \/ \E how \in {"token", "none", "raises"} : PollAttempt(how)
    \/ PollTest
    \/ PollSleep
    \/ PollExhausted
    \/ AfterPoll

\* main is past the login, at the transport branch, and no login took place
InitLoginIdle ==
    /\ lpc = "startup"
    /\ pipeboard_api_token = FALSE
    /\ authorized = FALSE
    /\ attempt = 0
    /\ calls = 0
    /\ poll_token = None
    /\ calls_at_token = 0
    /\ sleeps = 0
    /\ slept = 0
    /\ login_log = {}

----------------------------------------------------------------------------
(* create_budget_schedule (budget_schedules.py).  An argument is written   *)
(* as Python writes it: "None", "0", "5", "''", "'c'".                     *)

\* Python's `not x` on such a value
Falsy(x) == x \in {"None", "0", "''"}

CampaignIds == {"None", "''", "'c'"}
BudgetValues == {"None", "0", "5"}
BudgetValueTypes == {"None", "''", "'ABSOLUTE'", "'MULTIPLIER'", "'DAILY'"}
Times == {"None", "0", "7"}

ToolArgs ==
    [campaign_id : CampaignIds, budget_value : BudgetValues,
     budget_value_type : BudgetValueTypes, time_start : Times, time_end : Times]

NoArgs ==
    [campaign_id |-> "None", budget_value |-> "None", budget_value_type |-> "None",
     time_start |-> "None", time_end |-> "None"]

NoParams ==
    [budget_value |-> "None", budget_value_type |-> "None",
     time_start |-> "None", time_end |-> "None"]

\* what a call ends with: a JSON text ("json") or an exception that leaves
\* the function ("raised"); a JSON text is the data of the platform, or an
\* object with "error" and, for a failed request, the further members
NoResult ==
    [kind |-> "none", error |-> "", details |-> "", campaign_id |-> "None",
     params_sent |-> NoParams, data |-> ""]

ErrorJson(msg) == [NoResult EXCEPT !.kind = "json", !.error = msg]

\* checks that test every argument with `not`
validate_by_truthiness(a) ==
    IF Falsy(a.campaign_id) THEN "Campaign ID is required"
    ELSE IF Falsy(a.budget_value) THEN "Budget value is required"
    ELSE IF Falsy(a.budget_value_type) THEN "Budget value type is required"
    ELSE IF a.budget_value_type \notin {"'ABSOLUTE'", "'MULTIPLIER'"}
    THEN "Invalid budget_value_type. Must be ABSOLUTE or MULTIPLIER"
    ELSE IF Falsy(a.time_start) THEN "Time start is required"
    ELSE IF Falsy(a.time_end) THEN "Time end is required"
    ELSE "ok"

\* lines 38-49: the message of the first check that fails, or "ok"
validate(a) ==
    IF Falsy(a.campaign_id) THEN "Campaign ID is required"
    ELSE IF a.budget_value = "None" THEN "Budget value is required"
    ELSE IF Falsy(a.budget_value_type) THEN "Budget value type is required"
    ELSE IF a.budget_value_type \notin {"'ABSOLUTE'", "'MULTIPLIER'"}
    THEN "Invalid budget_value_type. Must be ABSOLUTE or MULTIPLIER"
    ELSE IF a.time_start = "None" THEN "Time start is required"
    ELSE IF a.time_end = "None" THEN "Time end is required"
    ELSE "ok"

\* lines 53-58
params(a) ==
    [budget_value |-> a.budget_value, budget_value_type |-> a.budget_value_type,
     time_start |-> a.time_start, time_end |-> a.time_end]

\* a handler that lets the exception go on
on_api_exception_reraise(a, e) == [NoResult EXCEPT !.kind = "raised", !.details = e]

\* lines 63-71: `except Exception as e:` returns the error object
on_api_exception(a, e) ==
    [kind |-> "json", error |-> "Failed to create budget schedule", details |-> e,
     campaign_id |-> a.campaign_id, params_sent |-> params(a), data |-> ""]

\* the exceptions make_api_request raises, and the data it returns
ApiExceptions == {"HTTPStatusError", "ConnectError", "ValueError"}
ApiData == {"{'id': '1'}", "{'error': {'code': 190}}"}

\* lines 38-60: the checks, then the request to the platform
ToolCalled(a) ==
    /\ tpc = "idle"
    /\ args' = a
    /\ IF validate(a) # "ok"
       THEN /\ tool_result' = ErrorJson(validate(a))
            /\ tpc' = "done"
            /\ UNCHANGED <<api_calls, api_params>>
       ELSE /\ api_calls' = api_calls + 1
            /\ api_params' = params(a)
            /\ tpc' = "awaiting"
            /\ UNCHANGED tool_result
    /\ UNCHANGED <<reqVars, extVars, srvVars, loginVars, hdlVars>>

\* lines 61-62: make_api_request returned
ApiReturns(d) ==
    /\ tpc = "awaiting"
    /\ tool_result' = [NoResult EXCEPT !.kind = "json", !.data = d]
    /\ tpc' = "done"
    /\ UNCHANGED <<args, api_calls, api_params, reqVars, extVars, srvVars, loginVars, hdlVars>>

\* lines 63-71: make_api_request raised
ApiRaises(e) ==
    /\ tpc = "awaiting"
    /\ tool_result' = on_api_exception(args, e)
    /\ tpc' = "done"
    /\ UNCHANGED <<args, api_calls, api_params, reqVars, extVars, srvVars, loginVars, hdlVars>>

\* the call is cancelled at the await of line 61: CancelledError is no
\* Exception and line 63 does not catch it
ToolCancelled ==
    /\ tpc = "awaiting"
    /\ tool_result' = [NoResult EXCEPT !.kind = "raised", !.details = "CancelledError"]
    /\ tpc' = "done"
    /\ UNCHANGED <<args, api_calls, api_params, reqVars, extVars, srvVars, loginVars, hdlVars>>

\* the result went to the caller; the next call begins afresh
ToolDone ==
    /\ tpc = "done"
    /\ tpc' = "idle"
    /\ args' = NoArgs
    /\ api_calls' = 0
    /\ api_params' = NoParams
    /\ tool_result' = NoResult
    /\ UNCHANGED <<reqVars, extVars, srvVars, loginVars, hdlVars>>

\* no call of the tool is under way
InitToolIdle ==
    /\ tpc = "idle"
    /\ args = NoArgs
    /\ api_calls = 0
    /\ api_params = NoParams
    /\ tool_result = NoResult

----------------------------------------------------------------------------
(* StreamableHTTPHandler (server.py) *)

\* lines 27-29: __init__ stores nothing in the instance
NewHandler == EmptyDict

NoConfig ==
    [auth_method |-> "none", bearer_token |-> None, meta_app_id |-> None,
     requires_oauth |-> FALSE]

\* lines 83-109; the instance is not consulted
get_auth_config_from_headers(request_headers) ==
    LET auth_header == Or(Get(request_headers, "Authentication"),
                          Get(request_headers, "authentication"))
        meta_app_id == Or(Get(request_headers, "X-META-APP-ID"),
                          Get(request_headers, "x-meta-app-id"))
    IN  IF Truthy(auth_header) /\ StartsWith(Lower(auth_header), bearer_)
        THEN [NoConfig EXCEPT !.auth_method = "bearer",
                              !.bearer_token = Strip(From(auth_header, 7))]
        ELSE IF Truthy(meta_app_id)
        THEN [NoConfig EXCEPT !.auth_method = "custom_meta_app",
                              !.meta_app_id = meta_app_id,
                              !.requires_oauth = TRUE]
        ELSE NoConfig

NoResponse ==
    [kind |-> "none", code |-> 0, message |-> "", status |-> "", auth_method |-> "",
     meta_app_id |-> None, supported_methods |-> <<>>, documentation |-> "",
     id |-> None]

\* lines 111-135
handle_bearer_request(auth_config, request_body) ==
    [NoResponse EXCEPT !.kind = "result", !.status = "ready", !.auth_method = "bearer",
                       !.message = "Authentication successful with Bearer token",
                       !.id = Get(request_body, "id")]

\* lines 137-161
handle_custom_app_request(auth_config, request_body) ==
    [NoResponse EXCEPT !.kind = "result", !.status = "oauth_required",
                       !.auth_method = "custom_meta_app",
                       !.meta_app_id = auth_config.meta_app_id,
                       !.message = "OAuth flow required for custom Meta app authentication",
                       !.id = Get(request_body, "id")]

\* an answer to the unauthenticated request that reports readiness
handle_unauthenticated_request_ready(request_body) ==
    [NoResponse EXCEPT !.kind = "result", !.status = "ready",
                       !.id = Get(request_body, "id")]

\* lines 163-188
handle_unauthenticated_request(request_body) ==
    [NoResponse EXCEPT !.kind = "error", !.code = -32600,
                       !.message = "Authentication required",
                       !.supported_methods =
                           <<"Authentication: Bearer <token> (recommended)",
                             "X-META-APP-ID: Custom Meta app OAuth (advanced users)">>,
                       !.documentation = "https://github.com/pipeboard-co/meta-ads-mcp",
                       !.id = Get(request_body, "id")]

\* a handler that keeps the authentication of a call for the calls after it
handle_request_with_session(self, request_headers, request_body) ==
    LET found == get_auth_config_from_headers(request_headers)
        auth_config == IF found.auth_method = "none" /\ "auth" \in DOMAIN self
                       THEN self["auth"] ELSE found
    IN  [response |->
            IF auth_config.auth_method = "bearer"
            THEN handle_bearer_request(auth_config, request_body)
            ELSE IF auth_config.auth_method = "custom_meta_app"
            THEN handle_custom_app_request(auth_config, request_body)
            ELSE handle_unauthenticated_request(request_body),
         self |-> IF found.auth_method # "none" THEN "auth" :> found ELSE self]

\* lines 31-64: the response, and the instance as the call leaves it; with
\* headers and body that are dictionaries of strings nothing in the try
\* block raises
handle_request(self, request_headers, request_body) ==
    LET auth_config == get_auth_config_from_headers(request_headers)
    IN  [response |->
            IF auth_config.auth_method = "bearer"
            THEN handle_bearer_request(auth_config, request_body)
            ELSE IF auth_config.auth_method = "custom_meta_app"
            THEN handle_custom_app_request(auth_config, request_body)
            ELSE handle_unauthenticated_request(request_body),
         self |-> self]

HandlerAuthNames == {"Authentication", "authentication", "authorization"}
HandlerAppNames == {"X-META-APP-ID", "x-meta-app-id"}
HandlerOtherNames == {"x-meta-access-token"}
HandlerNames == HandlerAuthNames \cup HandlerAppNames \cup HandlerOtherNames

\* header values: empty, another scheme, a Bearer token in either case, a
\* Bearer prefix with a blank only, and a Bearer token with blanks around it
HandlerAuthValues ==
    { <<>>, TokA, Bearer_ \o TokA, bearer_ \o TokB, Bearer_ \o <<" ">>,
      Bearer_ \o <<" ">> \o TokA \o <<" ">> }

HandlerValues(k) ==
    IF k \in HandlerAuthNames THEN HandlerAuthValues
    ELSE IF k \in HandlerAppNames THEN {<<>>, <<"a">>}
    ELSE {TokB}

Bodies == {EmptyDict, "id" :> <<"1">>, "id" :> <<"2">>}

\* the caller puts one more entry into the headers of the next call
AddRequestHeader(k, v) ==
    /\ hpc = "build"
    /\ k \notin DOMAIN hheaders
    /\ Cardinality(DOMAIN hheaders) < MaxHeaders
    /\ hheaders' = hheaders @@ (k :> v)
    /\ UNCHANGED <<hpc, hbody, response, self_state, served,
                   reqVars, extVars, srvVars, loginVars, toolVars>>

\* the call handler.handle_request(request_headers, request_body)
HandleRequest(b) ==
    /\ hpc = "build"
    /\ LET r == handle_request(self_state, hheaders, b)
       IN  /\ response' = r.response
           /\ self_state' = r.self
    /\ hbody' = b
    /\ hpc' = "done"
    /\ UNCHANGED <<hheaders, served, reqVars, extVars, srvVars, loginVars, toolVars>>

\* the caller turns to the next call on the same handler
NextCall ==
    /\ hpc = "done"
    /\ served' = served \cup {get_auth_config_from_headers(hheaders).auth_method}
    /\ hheaders' = EmptyDict
    /\ hbody' = EmptyDict
    /\ response' = NoResponse
    /\ hpc' = "build"
    /\ UNCHANGED <<self_state, reqVars, extVars, srvVars, loginVars, toolVars>>

\* a handler that was just made and has handled no call
InitHandlerIdle ==
    /\ hpc = "build"
    /\ hheaders = EmptyDict
    /\ hbody = EmptyDict
    /\ response = NoResponse
    /\ self_state = NewHandler
    /\ served = {}

InitAux == InitLoginIdle /\ InitToolIdle /\ InitHandlerIdle

----------------------------------------------------------------------------
(* setup_starlette_middleware, setup_fastmcp_http_auth, patch_fastmcp_server *)
(* and the transport branches of main (server.py).                         *)

AuthInjectionMiddlewareCls == "AuthInjectionMiddleware"
\* a middleware of another class, which the app has from its construction
OtherMiddlewareCls == "Middleware"

App == <<"app">>

Transports == {"stdio", "streamable-http"}
ProviderMethods == {"streamable_http_app", "sse_app"}

Count(um, cls) == Cardinality({i \in DOMAIN um : um[i] = cls})

\* a scan that never finds the class
already_added_never(um) == FALSE

\* lines 231-236: the scan of app.user_middleware for the class
already_added(um) == \E i \in DOMAIN um : um[i] = AuthInjectionMiddlewareCls

\* Starlette's add_middleware puts the class in front of user_middleware;
\* it raises once the app has built its middleware stack
add_middleware(um, cls) == <<cls>> \o um

\* lines 220-246, for an app that is not None: user_middleware after the
\* call, ok being whether add_middleware, if called, succeeds
setup_starlette_middleware(um, ok) ==
    IF ~already_added(um) /\ ok
    THEN add_middleware(um, AuthInjectionMiddlewareCls)
    ELSE um

\* line 241: add_middleware was called and raised
add_failed(um, ok) == ~already_added(um) /\ ~ok

\* line 240: add_middleware was called and returned
add_succeeded(um, ok) == ~already_added(um) /\ ok

\* lines 149-159: the app provider method that is looked for
selected_provider(json) == IF json THEN "streamable_http_app" ELSE "sse_app"

\* line 86: `if transport == "streamable-http":`
patched_run_installs(t) == t = "streamable-http"

\* a main that takes the HTTP branch whatever the transport
main_sets_up_http_always(t) == TRUE

\* lines 102-104: the modules whose get_current_access_token is replaced
Modules == {"auth", "api", "authentication"}

\* a patch of the auth module alone
setup_http_auth_patching_auth_only(b) == [b EXCEPT !["auth"] = "replacement"]

\* lines 120-123: the one replacement function is bound in the three modules
setup_http_auth_patching(b) == [m \in Modules |-> "replacement"]

\* server.py line 317: `if args.transport == "streamable-http":`
main_sets_up_http(t) == t = "streamable-http"

\* a main that gives up when the setup raised
after_setup_fatal(raised) == IF raised THEN "exited" ELSE "run"

\* server.py lines 349-363: the exception is logged and main goes on
after_setup(raised) == "run"

\* server.py lines 317-338: the HTTP branch configures the server
MainConfigures ==
    /\ mpc = "main"
    /\ main_sets_up_http(transport)
    /\ json_response' = ~sse_response
    /\ mpc' = "setup"
    /\ UNCHANGED <<transport, sse_response, provider_present, run_patched,
                   patched_provider, facade, user_middleware, ran, failed, logged,
                   provider_calls, setup_calls, added, app_ok, bindings, reqVars, extVars, auxVars>>

\* server.py lines 341-352 and setup_fastmcp_http_auth (lines 134-189); the
\* call may raise before it did anything ("import") or after it patched run
\* ("provider"), or return ("never")
SetupFastmcpHttpAuth(raise_at) ==
    /\ mpc = "setup"
    /\ run_patched' = (raise_at # "import")
    /\ patched_provider' = IF raise_at = "never" /\ provider_present
                           THEN selected_provider(json_response)
                           ELSE "none"
    /\ LET what == IF raise_at # "never" THEN {"setup_raised"}
                   ELSE IF ~provider_present THEN {"no_provider"}
                   ELSE {}
       IN  /\ failed' = failed \cup what
           /\ logged' = logged \cup what
    /\ mpc' = after_setup(raise_at # "never")
    /\ UNCHANGED <<transport, sse_response, json_response, provider_present, facade,
                   user_middleware, ran, provider_calls, setup_calls, added, app_ok,
                   bindings, reqVars, extVars, auxVars>>

\* server.py lines 366-373: mcp_server.run(transport="streamable-http"),
\* which is patched_run (lines 82-91) if run was patched
MainRuns ==
    /\ mpc = "run"
    /\ ran' = "streamable-http"
    /\ facade' = (facade \/ (run_patched /\ patched_run_installs("streamable-http")))
    /\ bindings' = IF run_patched /\ patched_run_installs("streamable-http")
                   THEN setup_http_auth_patching(bindings) ELSE bindings
    /\ mpc' = "starting"
    /\ UNCHANGED <<transport, sse_response, json_response, provider_present,
                   run_patched, patched_provider, user_middleware, failed, logged,
                   provider_calls, setup_calls, added, app_ok, reqVars, extVars, auxVars>>

\* server.py lines 378-381: mcp_server.run(transport='stdio')
MainRunsStdio ==
    /\ mpc = "main"
    /\ ~main_sets_up_http(transport)
    /\ ran' = "stdio"
    /\ facade' = (facade \/ (run_patched /\ patched_run_installs("stdio")))
    /\ bindings' = IF run_patched /\ patched_run_installs("stdio")
                   THEN setup_http_auth_patching(bindings) ELSE bindings
    /\ mpc' = "serving"
    /\ UNCHANGED <<transport, sse_response, json_response, provider_present,
                   run_patched, patched_provider, user_middleware, failed, logged,
                   provider_calls, setup_calls, added, app_ok, reqVars, extVars, auxVars>>

\* the framework, starting the HTTP server, calls the app provider method m;
\* lines 168-177: if m is the wrapped one, the wrapper hands the app the
\* original returned to setup_starlette_middleware, or logs that there is none
ProviderCalled(m, app, ok) ==
    /\ mpc = "starting"
    /\ provider_calls < MaxAttach
    /\ provider_calls' = provider_calls + 1
    /\ app_ok' = Truthy(app)
    /\ IF m # patched_provider
       THEN UNCHANGED <<user_middleware, failed, logged, setup_calls, added>>
       ELSE IF Truthy(app)
       THEN /\ user_middleware' = setup_starlette_middleware(user_middleware, ok)
            /\ setup_calls' = setup_calls + 1
            /\ added' = IF add_succeeded(user_middleware, ok) THEN added + 1 ELSE added
            /\ LET what == IF add_failed(user_middleware, ok) THEN {"add_failed"} ELSE {}
               IN  /\ failed' = failed \cup what
                   /\ logged' = logged \cup what
       ELSE /\ failed' = failed \cup {"provider_none"}
            /\ logged' = logged \cup {"provider_none"}
            /\ UNCHANGED <<user_middleware, setup_calls, added>>
    /\ UNCHANGED <<mpc, transport, sse_response, json_response, provider_present,
                   run_patched, patched_provider, facade, ran, bindings, reqVars, extVars, auxVars>>

\* lines 220-246: a call of setup_starlette_middleware(app) made directly
SetupStarletteMiddleware(app, ok) ==
    /\ mpc = "starting"
    /\ setup_calls < MaxAttach
    /\ IF Truthy(app)
       THEN /\ user_middleware' = setup_starlette_middleware(user_middleware, ok)
            /\ setup_calls' = setup_calls + 1
            /\ added' = IF add_succeeded(user_middleware, ok) THEN added + 1 ELSE added
            /\ LET what == IF add_failed(user_middleware, ok) THEN {"add_failed"} ELSE {}
               IN  /\ failed' = failed \cup what
                   /\ logged' = logged \cup what
       ELSE /\ "app_none" \notin failed
            /\ failed' = failed \cup {"app_none"}
            /\ logged' = logged \cup {"app_none"}
            /\ UNCHANGED <<user_middleware, setup_calls, added>>
    /\ UNCHANGED <<mpc, transport, sse_response, json_response, provider_present,
                   run_patched, patched_provider, facade, ran, provider_calls, app_ok,
                   bindings, reqVars, extVars, auxVars>>

\* the framework serves the app the provider returned
ServerStarts ==
    /\ mpc = "starting"
    /\ provider_calls > 0
    /\ app_ok
    /\ mpc' = "serving"
    /\ UNCHANGED <<transport, sse_response, json_response, provider_present,
                   run_patched, patched_provider, facade, user_middleware, ran, failed,
                   logged, provider_calls, setup_calls, added, app_ok, bindings, reqVars, extVars, auxVars>>

\* server.py lines 374-377: run raised; main logs the error and returns 1
RunRaises ==
    /\ mpc = "starting"
    /\ logged' = logged \cup {"run_failed"}
    /\ mpc' = "exited"
    /\ UNCHANGED <<transport, sse_response, json_response, provider_present,
                   run_patched, patched_provider, facade, user_middleware, ran, failed,
                   provider_calls, setup_calls, added, app_ok, bindings, reqVars, extVars, auxVars>>

ServerSlots == 1..MaxServed

\* the header dictionaries of the requests sent to this server: without a
\* credential and with a Bearer token
ServerHeaderSets == {EmptyDict, "authorization" :> (Bearer_ \o TokA)}

\* a request reaches the server: every AuthInjectionMiddleware of
\* user_middleware runs its dispatch on it (lines 200-214) before the handler
RequestArrives(s, h) ==
    /\ mpc = "serving"
    /\ pc[s] = "idle"
    /\ LET n == Count(user_middleware, AuthInjectionMiddlewareCls)
           tok == IF n > 0 THEN extract_token_from_headers(h) ELSE None
           fresh == [ctx EXCEPT ![s] = auth_token_default]
       IN  /\ token' = [token EXCEPT ![s] = tok]
           /\ ctx' = IF entry_sets(tok) THEN set_auth_token(fresh, s, tok) ELSE fresh
           /\ sets' = [sets EXCEPT ![s] = IF entry_sets(tok) THEN @ + n ELSE @]
           /\ prev' = [prev EXCEPT ![s] = IF Truthy(tok) THEN "none" ELSE lastDone]
    /\ pc' = [pc EXCEPT ![s] = "handler"]
    /\ UNCHANGED <<outcome, res, lastDone, cached, clears, outVars, extVars, srvVars, auxVars>>

\* the downstream tool calls get_current_access_token as it is without the
\* replacement: the accessor of the Auth Manager, which is awaited
CallOriginal(s) ==
    /\ \E m \in Modules : bindings[m] = "original"
    /\ pc[s] = "handler"
    /\ res' = [res EXCEPT ![s] =
                  [called |-> TRUE, store |-> None, original |-> TRUE,
                   origResult |-> Pending, result |-> Pending]]
    /\ pc' = [pc EXCEPT ![s] = "awaiting"]
    /\ UNCHANGED <<token, ctx, outcome, prev, lastDone, cached, callVars, outVars, extVars, srvVars, auxVars>>

\* the downstream tool calls get_current_access_token and finds the
\* replacement that setup_http_auth_patching installed (lines 121-123)
FacadeCalled(s) == (\E m \in Modules : bindings[m] = "replacement") /\ Resolve(s)

\* the server as the requests of the first specification find it: HTTP,
\* with the middleware attached and the replacement installed
InitServing ==
    /\ mpc = "serving"
    /\ transport = "streamable-http"
    /\ sse_response = FALSE
    /\ json_response = TRUE
    /\ provider_present = TRUE
    /\ run_patched = TRUE
    /\ patched_provider = "streamable_http_app"
    /\ facade = TRUE
    /\ bindings = [m \in Modules |-> "replacement"]
    /\ user_middleware = <<AuthInjectionMiddlewareCls, OtherMiddlewareCls>>
    /\ ran = "streamable-http"
    /\ failed = {}
    /\ logged = {}
    /\ provider_calls = 1
    /\ setup_calls = 1
    /\ added = 1
    /\ app_ok = TRUE

\* the process at the transport branch of main (server.py line 316)
InitServer ==
    /\ pc = [s \in Slots |-> "idle"]
    /\ token = [s \in Slots |-> None]
    /\ ctx = [s \in Slots |-> auth_token_default]
    /\ outcome = [s \in Slots |-> "none"]
    /\ res = [s \in Slots |-> NoCall]
    /\ prev = [s \in Slots |-> "none"]
    /\ lastDone = "none"
    /\ cached \in CachedValues
    /\ sets = [s \in Slots |-> 0]
    /\ clears = [s \in Slots |-> 0]
    /\ down = [s \in Slots |-> NoOutcome]
    /\ up = [s \in Slots |-> NoOutcome]
    /\ InitExtractor
    /\ mpc = "main"
    /\ transport \in Transports
    /\ sse_response \in BOOLEAN
    /\ json_response = FALSE
    /\ provider_present \in BOOLEAN
    /\ run_patched = FALSE
    /\ patched_provider = "none"
    /\ facade = FALSE
    /\ bindings = [m \in Modules |-> "original"]
    /\ user_middleware = <<OtherMiddlewareCls>>
    /\ ran = "none"
    /\ failed = {}
    /\ logged = {}
    /\ provider_calls = 0
    /\ setup_calls = 0
    /\ added = 0
    /\ app_ok = FALSE
    /\ InitAux

NextServer ==
    \/ MainConfigures
    \/ \E r \in {"never", "import", "provider"} : SetupFastmcpHttpAuth(r)
    \/ MainRuns
    \/ MainRunsStdio
    \/ \E m \in ProviderMethods, app \in {App, None}, ok \in BOOLEAN : ProviderCalled(m, app, ok)
    \/ \E app \in {App, None}, ok \in BOOLEAN : SetupStarletteMiddleware(app, ok)
    \/ ServerStarts
    \/ RunRaises
    \/ \E s \in ServerSlots, h \in ServerHeaderSets : RequestArrives(s, h)
    \/ \E s \in ServerSlots : FacadeCalled(s)
    \/ \E s \in ServerSlots : CallOriginal(s)
    \/ \E s \in ServerSlots : OriginalReturns(s)
    \/ \E s \in ServerSlots : HandlerReturns(s)
    \/ \E s \in ServerSlots : HandlerRaises(s)
    \/ \E s \in ServerSlots : Cancelled(s)
    \/ \E s \in ServerSlots : TaskEnds(s)
    \/ \E v \in CachedValues : AuthManagerUpdates(v)

SpecServer == InitServer /\ [][NextServer]_vars

----------------------------------------------------------------------------
(* Specification of the request handling *)

Init ==
    /\ pc = [s \in Slots |-> "idle"]
    /\ token = [s \in Slots |-> None]
    /\ ctx = [s \in Slots |-> auth_token_default]
    /\ outcome = [s \in Slots |-> "none"]
    /\ res = [s \in Slots |-> NoCall]
    /\ prev = [s \in Slots |-> "none"]
    /\ lastDone = "none"
    /\ cached \in CachedValues
    /\ sets = [s \in Slots |-> 0]
    /\ clears = [s \in Slots |-> 0]
    /\ down = [s \in Slots |-> NoOutcome]
    /\ up = [s \in Slots |-> NoOutcome]
    /\ InitExtractor
    /\ InitServing
    /\ InitAux

Next ==
    \/ \E s \in Slots, h \in RequestHeaderSets : DispatchEnter(s, h)
    \/ \E s \in Slots : Resolve(s)
    \/ \E s \in Slots : OriginalReturns(s)
    \/ \E s \in Slots : HandlerReturns(s)
    \/ \E s \in Slots : HandlerRaises(s)
    \/ \E s \in Slots : Cancelled(s)
    \/ \E s \in Slots : TaskEnds(s)
    \/ \E v \in CachedValues : AuthManagerUpdates(v)

Spec == Init /\ [][Next]_vars

----------------------------------------------------------------------------
(* Specification of the extractor on its own: a header dictionary is built *)
(* entry by entry and handed to extract_token_from_headers.                *)

BEARER_ == <<"B", "E", "A", "R", "E", "R", " ">>

BoundedSeqs(S, n) == UNION {[1..m -> S] : m \in 0..n}

AuthNames == {"Authentication", "authentication", "AUTHENTICATION",
              "Authorization", "authorization"}
MetaNames == {"X-META-ACCESS-TOKEN", "x-meta-access-token", "X-Meta-Access-Token"}
PipeNames == {"X-PIPEBOARD-API-TOKEN", "x-pipeboard-api-token"}
OtherNames == {"content-type"}
HeaderNames == AuthNames \cup MetaNames \cup PipeNames \cup OtherNames

\* header values: an optional Bearer prefix in either case, then up to
\* MaxBody characters
AuthValues ==
    {p \o b : p \in {<<>>, Bearer_, BEARER_}, b \in BoundedSeqs({" ", "t"}, MaxBody)}
MetaValues == BoundedSeqs({" ", "m"}, MaxBody)
PipeValues == BoundedSeqs({"p"}, MaxBody)
OtherValues == {<<"j">>}

HeaderValues(k) ==
    IF k \in AuthNames THEN AuthValues
    ELSE IF k \in MetaNames THEN MetaValues
    ELSE IF k \in PipeNames THEN PipeValues
    ELSE OtherValues

\* the caller puts one more entry into the dictionary
AddHeader(k, v) ==
    /\ xpc = "build"
    /\ k \notin DOMAIN headers
    /\ Cardinality(DOMAIN headers) < MaxHeaders
    /\ headers' = headers @@ (k :> v)
    /\ UNCHANGED <<extracted, xpc, reqVars, srvVars, auxVars>>

\* the call extract_token_from_headers(headers)
ExtractToken ==
    /\ xpc = "build"
    /\ extracted' = extract_token_from_headers(headers)
    /\ xpc' = "done"
    /\ UNCHANGED <<headers, reqVars, srvVars, auxVars>>

InitExtract ==
    /\ pc = [s \in Slots |-> "idle"]
    /\ token = [s \in Slots |-> None]
    /\ ctx = [s \in Slots |-> auth_token_default]
    /\ outcome = [s \in Slots |-> "none"]
    /\ res = [s \in Slots |-> NoCall]
    /\ prev = [s \in Slots |-> "none"]
    /\ lastDone = "none"
    /\ cached = None
    /\ sets = [s \in Slots |-> 0]
    /\ clears = [s \in Slots |-> 0]
    /\ down = [s \in Slots |-> NoOutcome]
    /\ up = [s \in Slots |-> NoOutcome]
    /\ InitExtractor
    /\ InitServing
    /\ InitAux

NextExtract ==
    \/ \E k \in HeaderNames : \E v \in HeaderValues(k) : AddHeader(k, v)
    \/ ExtractToken

SpecExtract == InitExtract /\ [][NextExtract]_vars

----------------------------------------------------------------------------
(* Specification of the login in main.  main is a sequential program: a    *)
(* step of it that can be taken is taken (the calls it makes return or     *)
(* raise, and time.sleep returns); nothing is assumed of the user.         *)

InitLogin ==
    /\ pc = [s \in Slots |-> "idle"]
    /\ token = [s \in Slots |-> None]
    /\ ctx = [s \in Slots |-> auth_token_default]
    /\ outcome = [s \in Slots |-> "none"]
    /\ res = [s \in Slots |-> NoCall]
    /\ prev = [s \in Slots |-> "none"]
    /\ lastDone = "none"
    /\ cached = None
    /\ sets = [s \in Slots |-> 0]
    /\ clears = [s \in Slots |-> 0]
    /\ down = [s \in Slots |-> NoOutcome]
    /\ up = [s \in Slots |-> NoOutcome]
    /\ InitExtractor
    /\ InitServing
    /\ lpc = "check"
    /\ pipeboard_api_token \in BOOLEAN
    /\ authorized = FALSE
    /\ attempt = 0
    /\ calls = 0
    /\ poll_token = None
    /\ calls_at_token = 0
    /\ sleeps = 0
    /\ slept = 0
    /\ login_log = {}
    /\ InitToolIdle
    /\ InitHandlerIdle

NextLogin ==
    \/ MainLoginStep
    \/ UserAuthorizes

SpecLogin == InitLogin /\ [][NextLogin]_vars /\ WF_vars(MainLoginStep)

----------------------------------------------------------------------------
(* Specification of the tool create_budget_schedule, called again and again *)

InitTool ==
    /\ pc = [s \in Slots |-> "idle"]
    /\ token = [s \in Slots |-> None]
    /\ ctx = [s \in Slots |-> auth_token_default]
    /\ outcome = [s \in Slots |-> "none"]
    /\ res = [s \in Slots |-> NoCall]
    /\ prev = [s \in Slots |-> "none"]
    /\ lastDone = "none"
    /\ cached = None
    /\ sets = [s \in Slots |-> 0]
    /\ clears = [s \in Slots |-> 0]
    /\ down = [s \in Slots |-> NoOutcome]
    /\ up = [s \in Slots |-> NoOutcome]
    /\ InitExtractor
    /\ InitServing
    /\ InitAux

NextTool ==
    \/ \E a \in ToolArgs : ToolCalled(a)
    \/ \E d \in ApiData : ApiReturns(d)
    \/ \E e \in ApiExceptions : ApiRaises(e)
    \/ ToolCancelled
    \/ ToolDone

SpecTool == InitTool /\ [][NextTool]_vars

----------------------------------------------------------------------------
(* Specification of a StreamableHTTPHandler that handles call after call *)

InitHandler ==
    /\ pc = [s \in Slots |-> "idle"]
    /\ token = [s \in Slots |-> None]
    /\ ctx = [s \in Slots |-> auth_token_default]
    /\ outcome = [s \in Slots |-> "none"]
    /\ res = [s \in Slots |-> NoCall]
    /\ prev = [s \in Slots |-> "none"]
    /\ lastDone = "none"
    /\ cached = None
    /\ sets = [s \in Slots |-> 0]
    /\ clears = [s \in Slots |-> 0]
    /\ down = [s \in Slots |-> NoOutcome]
    /\ up = [s \in Slots |-> NoOutcome]
    /\ InitExtractor
    /\ InitServing
    /\ InitAux

NextHandler ==
    \/ \E k \in HandlerNames : \E v \in HandlerValues(k) : AddRequestHeader(k, v)
    \/ \E b \in Bodies : HandleRequest(b)
    \/ NextCall

SpecHandler == InitHandler /\ [][NextHandler]_vars

----------------------------------------------------------------------------
(* Properties of the request handling *)

InFlight(s) == pc[s] \in {"handler", "awaiting"}

Credentialed(s) == pc[s] # "idle" /\ Truthy(token[s])

RequestTokens == {TokA, TokB}

\* C1: of two requests in flight that carry different credentials, every
\* facade call made for one returns that request's credential and never the
\* other's, wherever the two interleave after set_auth_token.
C1_Isolation ==
    \A s1 \in Slots, s2 \in Slots :
        (/\ s1 # s2
         /\ InFlight(s1) /\ Credentialed(s1)
         /\ Credentialed(s2)
         /\ token[s1] # token[s2]
         /\ res[s1].called)
        => /\ res[s1].result = token[s1]
           /\ res[s1].result # token[s2]

C1_Witness ==
    \E s1 \in Slots, s2 \in Slots :
        /\ s1 # s2
        /\ pc[s1] = "handler" /\ pc[s2] = "handler"
        /\ token[s1] = TokA /\ token[s2] = TokB
        /\ res[s1].called /\ res[s2].called

\* C2: a facade call that finds a non-empty token in the request-scoped store
\* returns exactly that token and does not call the original accessor,
\* whatever the process-wide cached credential is.
C2_Override ==
    \A s \in Slots :
        (res[s].called /\ Truthy(res[s].store))
        => /\ res[s].result = res[s].store
           /\ ~res[s].original
           /\ res[s].origResult = None

C2_Witness ==
    \E s \in Slots :
        /\ res[s].called /\ res[s].store = TokA /\ res[s].result = TokA
        /\ cached = CachedToken

\* C3: a facade call that finds the request-scoped store empty calls the
\* original accessor and returns exactly what it returned; when that is
\* empty the facade returns empty to the handler.
C3_Fallback ==
    \A s \in Slots :
        (res[s].called /\ ~Truthy(res[s].store))
        => /\ res[s].original
           /\ res[s].result = res[s].origResult
           /\ (pc[s] = "handler" => res[s].result \in CachedValues)

C3_Witness ==
    \E s \in Slots, q \in Slots :
        /\ pc[s] = "handler" /\ res[s].called /\ res[s].store = None
        /\ res[s].origResult = None /\ res[s].result = None
        /\ pc[q] = "handler" /\ res[q].called /\ res[q].store = None
        /\ res[q].result = CachedToken

C5_ClearOnCancel ==
    \A s \in Slots :
        (pc[s] = "done" /\ outcome[s] = "cancelled" /\ Truthy(token[s]))
        => get_auth_token(ctx, s) = None

C5_Witness ==
    \E s \in Slots :
        /\ pc[s] = "done" /\ outcome[s] = "cancelled" /\ token[s] = TokA
        /\ ctx[s] = None

\* C6: from set_auth_token at entry until the request's own clear at exit,
\* get_auth_token in the request's context returns the token set at entry,
\* across suspensions and whatever other requests set or clear.
C6_VisibleAcrossSuspension ==
    \A s \in Slots :
        (InFlight(s) /\ Truthy(token[s])) => get_auth_token(ctx, s) = token[s]

C6_Witness ==
    \E s \in Slots, q \in Slots :
        /\ pc[s] = "handler" /\ token[s] = TokA /\ res[s].called
        /\ get_auth_token(ctx, s) = TokA
        /\ pc[q] = "done" /\ token[q] = TokB /\ ctx[q] = None

\* C16: a request for which the extractor yields no credential has neither
\* set_auth_token nor clear_auth_token called by dispatch and keeps the
\* store as it was, at entry and on every way out; for every request,
\* clear_auth_token is called at exit exactly when set_auth_token was called
\* at entry.
C16_NoWriteWithoutCredential ==
    \A s \in Slots :
        /\ (pc[s] # "idle" /\ ~Truthy(token[s]))
           => (sets[s] = 0 /\ clears[s] = 0 /\ ctx[s] = auth_token_default)
        /\ pc[s] = "done" => (clears[s] > 0 <=> sets[s] > 0)

C16_Witness ==
    \E s \in Slots, q \in Slots :
        /\ pc[s] = "done" /\ token[s] = <<>> /\ outcome[s] = "raised"
        /\ sets[s] = 0 /\ clears[s] = 0
        /\ pc[q] = "done" /\ token[q] = TokA /\ sets[q] = 1 /\ clears[q] = 1

\* C17: while a request is handled the store is set at most once, exactly
\* once if and only if a (non-empty) credential was extracted; it is not
\* cleared before the exit and, if it was set, it is cleared exactly once at
\* the exit, however call_next ended; the store is empty while no request
\* is handled, as at process start.
C17_StoreLifecycle ==
    \A s \in Slots :
        /\ sets[s] <= 1
        /\ pc[s] # "idle" => (sets[s] = 1 <=> Truthy(token[s]))
        /\ InFlight(s) => clears[s] = 0
        /\ pc[s] = "done" => clears[s] = sets[s]
        /\ pc[s] = "idle" => (ctx[s] = None /\ sets[s] = 0 /\ clears[s] = 0)

C17_Witness ==
    \E s \in Slots, q \in Slots :
        /\ pc[s] = "done" /\ outcome[s] = "raised" /\ token[s] = TokA
        /\ sets[s] = 1 /\ clears[s] = 1
        /\ pc[q] = "done" /\ outcome[q] = "returned" /\ token[q] = TokB
        /\ sets[q] = 1 /\ clears[q] = 1

\* C18: clear_auth_token on a store in which nothing was set changes
\* nothing and does not fail; a second clear right after a clear leaves the
\* store as the first left it; get_auth_token after a clear returns None.
C18_ClearIdempotent ==
    \A s \in Slots :
        LET once == clear_auth_token(ctx, s)
            twice == clear_auth_token(once, s)
        IN  /\ twice = once
            /\ get_auth_token(once, s) = None
            /\ get_auth_token(twice, s) = None
            /\ (pc[s] # "idle" /\ sets[s] = 0) => once = ctx
            /\ clears[s] > 0 => once = ctx

C18_Witness ==
    \E s \in Slots, q \in Slots :
        /\ pc[s] = "done" /\ token[s] = TokA /\ clears[s] = 1
        /\ clear_auth_token(ctx, s) = ctx
        /\ pc[q] = "handler" /\ sets[q] = 0
        /\ clear_auth_token(ctx, q) = ctx

\* C21: a step in which a call of the replacement accessor is made or
\* completed, on the store branch as on the fallback branch, leaves the
\* request-scoped store and the cached credential as they were; and a step
\* that changes the cached credential is a step of the Auth Manager, in
\* which no request moves and the store does not change.
C21_ResolveIsPureRead ==
    [][ /\ \A s \in Slots :
              (res'[s] # res[s] /\ res'[s].called)
              => (ctx' = ctx /\ cached' = cached /\ sets' = sets /\ clears' = clears)
        /\ cached' # cached
              => (pc' = pc /\ ctx' = ctx /\ token' = token /\ res' = res)
      ]_vars

C21_Witness ==
    \E s \in Slots, q \in Slots :
        /\ pc[s] = "handler" /\ res[s].called /\ ~res[s].original
        /\ Truthy(token[s]) /\ ctx[s] = token[s] /\ res[s].result = token[s]
        /\ pc[q] = "handler" /\ res[q].called /\ res[q].original
        /\ res[q].result = CachedToken /\ ctx[q] = None

\* C26: when call_next raised, dispatch has cleared the store if it had set
\* it and ends with that same exception for its caller, not with a response
\* and not with nothing; when call_next returned, dispatch returns that
\* response.
C26_ErrorsPassThrough ==
    \A s \in Slots :
        pc[s] = "done" =>
            /\ down[s] = Produced(outcome[s], s)
            /\ up[s] = down[s]
            /\ outcome[s] = "raised" =>
                  (up[s].kind = "raised" /\ ctx[s] = None /\ clears[s] = sets[s])

C26_Witness ==
    \E s \in Slots, q \in Slots :
        /\ pc[s] = "done" /\ outcome[s] = "raised" /\ token[s] = TokA
        /\ clears[s] = 1 /\ up[s] = Produced("raised", s)
        /\ pc[q] = "done" /\ outcome[q] = "returned" /\ up[q] = Produced("returned", q)

----------------------------------------------------------------------------
(* Properties of the extractor *)

\* a header name in lower case
NameLower(k) ==
    CASE k \in {"Authentication", "authentication", "AUTHENTICATION"} -> "authentication"
      [] k \in {"Authorization", "authorization"} -> "authorization"
      [] k \in MetaNames -> "x-meta-access-token"
      [] k \in PipeNames -> "x-pipeboard-api-token"
      [] OTHER -> k

\* the spellings of name n that dictionary h holds
SpellingsIn(h, n) == {k \in DOMAIN h : NameLower(k) = n}

\* a value that starts, case-insensitively, with "Bearer "
IsBearer(v) == Truthy(v) /\ StartsWith(Lower(v), bearer_)

\* the text after the "Bearer " prefix, surrounding whitespace trimmed
BearerText(v) == Strip(From(v, 7))

\* the same result: the same credential, or none either way
SameResult(a, b) == a = b \/ (~Truthy(a) /\ ~Truthy(b))

\* h with the entry named k named k2 instead
Rename(h, k, k2) ==
    [n \in (DOMAIN h \ {k}) \cup {k2} |-> IF n = k2 THEN h[k] ELSE h[n]]

\* the one value h holds for name n when it is spelled as one of `spellings`
\* and in no other way; None otherwise
ValueOf(h, n, spellings) ==
    IF \E k \in spellings : SpellingsIn(h, n) = {k}
    THEN h[CHOOSE k \in spellings : SpellingsIn(h, n) = {k}]
    ELSE None

\* C7: when the header set holds one Authentication header ('Authentication',
\* or 'authentication' as an HTTP server delivers it) whose value starts
\* case-insensitively with "Bearer ", the extractor returns the trimmed text
\* after the prefix, whatever other headers are present.
C7_BearerPrecedence ==
    xpc = "done" =>
        \A k \in {"Authentication", "authentication"} :
            (SpellingsIn(headers, "authentication") = {k} /\ IsBearer(headers[k]))
            => extracted = BearerText(headers[k])

C7_Witness ==
    /\ xpc = "done"
    /\ DOMAIN headers = {"Authentication", "X-META-ACCESS-TOKEN", "X-PIPEBOARD-API-TOKEN"}
    /\ headers["Authentication"] = BEARER_ \o <<" ", "t">>
    /\ headers["X-META-ACCESS-TOKEN"] = <<"m">>
    /\ headers["X-PIPEBOARD-API-TOKEN"] = <<"p">>
    /\ extracted = <<"t">>

\* C8: the extractor's result does not change when a recognised header name
\* is replaced by the same name in another letter case.
C8_NamesCaseInsensitive ==
    xpc = "done" =>
        \A k \in DOMAIN headers \ OtherNames, k2 \in HeaderNames \ DOMAIN headers :
            NameLower(k2) = NameLower(k)
            => SameResult(extract_token_from_headers(Rename(headers, k, k2)), extracted)

\* C9: when an Authentication or an Authorization header of the header set
\* has a Bearer-prefixed value, the extractor returns the trimmed text after
\* the prefix of such a header, also when the other of the two is present
\* with another kind of value.  (Names as the extractor spells them, each at
\* most once.)
C9_AuthorizationPrimary ==
    (/\ xpc = "done"
     /\ DOMAIN headers \subseteq {"Authentication", "authentication", "authorization"}
     /\ Cardinality(SpellingsIn(headers, "authentication")) <= 1)
    => LET bearers == {k \in DOMAIN headers : IsBearer(headers[k])}
       IN  bearers # {} => \E k \in bearers : SameResult(extracted, BearerText(headers[k]))

\* C10: when the one Authentication header of the header set has a non-empty
\* value that does not start with "Bearer ", the extractor returns the
\* X-META-ACCESS-TOKEN value if that header is present (non-empty), else the
\* X-PIPEBOARD-API-TOKEN value if present, else empty.
C10_FallThrough ==
    xpc = "done" =>
        \A k \in {"Authentication", "authentication"} :
            (/\ SpellingsIn(headers, "authentication") = {k}
             /\ Truthy(headers[k]) /\ ~IsBearer(headers[k])
             /\ SpellingsIn(headers, "x-meta-access-token") \subseteq
                    {"X-META-ACCESS-TOKEN", "x-meta-access-token"}
             /\ Cardinality(SpellingsIn(headers, "x-meta-access-token")) <= 1
             /\ Cardinality(SpellingsIn(headers, "x-pipeboard-api-token")) <= 1)
            => LET meta == ValueOf(headers, "x-meta-access-token",
                                   {"X-META-ACCESS-TOKEN", "x-meta-access-token"})
                   pipe == ValueOf(headers, "x-pipeboard-api-token",
                                   {"X-PIPEBOARD-API-TOKEN", "x-pipeboard-api-token"})
               IN  extracted = IF Truthy(meta) THEN meta
                               ELSE IF Truthy(pipe) THEN pipe
                               ELSE None

C10_Witness ==
    /\ xpc = "done"
    /\ DOMAIN headers = {"Authentication", "x-meta-access-token", "X-PIPEBOARD-API-TOKEN"}
    /\ headers["Authentication"] = <<"t">>
    /\ headers["x-meta-access-token"] = <<" ", "m">>
    /\ headers["X-PIPEBOARD-API-TOKEN"] = <<"p">>
    /\ extracted = <<" ", "m">>

RecognisedMeta == {"X-META-ACCESS-TOKEN", "x-meta-access-token"}
RecognisedPipe == {"X-PIPEBOARD-API-TOKEN", "x-pipeboard-api-token"}

\* no Authentication or Authorization header, however spelled, has a
\* Bearer-prefixed value
NoBearer(h) == \A k \in DOMAIN h \cap AuthNames : ~IsBearer(h[k])

\* C11: with no Bearer-prefixed Authentication/Authorization value and with
\* X-META-ACCESS-TOKEN and X-PIPEBOARD-API-TOKEN both present and non-empty,
\* the extractor returns the X-META-ACCESS-TOKEN value.
C11_DirectBeatsLegacy ==
    xpc = "done" =>
        LET meta == ValueOf(headers, "x-meta-access-token", RecognisedMeta)
            pipe == ValueOf(headers, "x-pipeboard-api-token", RecognisedPipe)
        IN  (NoBearer(headers) /\ Truthy(meta) /\ Truthy(pipe)) => extracted = meta

C11_Witness ==
    /\ xpc = "done"
    /\ DOMAIN headers = {"authorization", "x-meta-access-token", "x-pipeboard-api-token"}
    /\ headers["authorization"] = <<"t">>
    /\ headers["x-meta-access-token"] = <<"m">>
    /\ headers["x-pipeboard-api-token"] = <<"p">>
    /\ extracted = <<"m">>

\* C12: when X-META-ACCESS-TOKEN, or X-PIPEBOARD-API-TOKEN, is the only
\* recognised header of the header set and is not empty, the extractor
\* returns its value as it is, untrimmed.
C12_SingleTokenHeaderRaw ==
    xpc = "done" =>
        \A k \in RecognisedMeta \cup RecognisedPipe :
            (/\ DOMAIN headers \cap (AuthNames \cup MetaNames \cup PipeNames) = {k}
             /\ Truthy(headers[k]))
            => extracted = headers[k]

C12_Witness ==
    /\ xpc = "done"
    /\ DOMAIN headers = {"X-META-ACCESS-TOKEN", "content-type"}
    /\ headers["X-META-ACCESS-TOKEN"] = <<" ", "m">>
    /\ extracted = <<" ", "m">>

\* C13: for a header set with none of the three schemes (no Bearer-prefixed
\* Authentication/Authorization value, no non-empty direct or legacy token
\* header), malformed values included, the extractor returns None.
C13_NoSchemeGivesNone ==
    xpc = "done" =>
        ((/\ NoBearer(headers)
          /\ \A k \in DOMAIN headers \cap (MetaNames \cup PipeNames) : ~Truthy(headers[k]))
         => extracted = None)

C13_Witness ==
    /\ xpc = "done"
    /\ DOMAIN headers = {"Authentication", "X-META-ACCESS-TOKEN", "content-type"}
    /\ headers["Authentication"] = <<"t", "t">>
    /\ headers["X-META-ACCESS-TOKEN"] = <<>>
    /\ extracted = None

\* h without its recognised headers that have the empty string as value
WithoutEmpty(h) ==
    LET keep == {k \in DOMAIN h : k \in OtherNames \/ h[k] # <<>>}
    IN  [k \in keep |-> h[k]]

\* C14: the extractor returns for a header set what it returns for the set
\* without the recognised headers whose value is the empty string.
C14_EmptyValueIsAbsent ==
    xpc = "done" => extract_token_from_headers(WithoutEmpty(headers)) = extracted

C14_Witness ==
    /\ xpc = "done"
    /\ DOMAIN headers = {"Authentication", "X-META-ACCESS-TOKEN", "x-meta-access-token"}
    /\ headers["Authentication"] = <<>>
    /\ headers["X-META-ACCESS-TOKEN"] = <<>>
    /\ headers["x-meta-access-token"] = <<"m">>
    /\ extracted = <<"m">>

\* C25 as stated: on every header set extract_token_from_headers returns
\* None or a non-empty string; a value that is the "Bearer " prefix followed
\* by whitespace only gives no empty-string credential.
C25_CredentialNeverEmpty == xpc = "done" => extracted # <<>>

----------------------------------------------------------------------------
(* Properties of the server startup *)

Attached == Count(user_middleware, AuthInjectionMiddlewareCls)

\* a finished credential resolution of the request in slot s gave what the
\* Auth Manager's accessor returned, and nothing of the store
FromAuthManager(s) ==
    res[s].called =>
        /\ res[s].original
        /\ res[s].result # Pending
           => (res[s].result = res[s].origResult /\ res[s].result \in CachedValues)

StoreUnused(s) == sets[s] = 0 /\ clears[s] = 0 /\ ctx[s] = auth_token_default

\* C15 as stated: after one or more calls of setup_starlette_middleware on
\* the app, user_middleware holds exactly one AuthInjectionMiddleware.
C15_ExactlyOneAfterAnyCall == setup_calls >= 1 => Attached = 1

\* C15, amended: after any number of calls of setup_starlette_middleware on
\* the app, directly or through the wrapped app provider method,
\* user_middleware holds at most one AuthInjectionMiddleware, and exactly one
\* unless every add_middleware call so far raised, which was logged; so a
\* request's credential is set at most once.
C15_AtMostOneAttached ==
    /\ Attached <= 1
    /\ added <= 1
    /\ Attached = added
    /\ (setup_calls >= 1 /\ Attached = 0) => "add_failed" \in logged
    /\ \A s \in Slots : sets[s] <= 1

C15_Witness ==
    /\ mpc = "serving"
    /\ provider_calls = MaxAttach
    /\ setup_calls = MaxAttach
    /\ Attached = 1
    /\ \E s \in ServerSlots : pc[s] = "handler" /\ token[s] = TokA /\ sets[s] = 1

\* C19: when main is started with the stdio transport, run is called with
\* 'stdio', no middleware is attached, set_auth_token is never called, the
\* HTTP-aware replacement is not installed and every credential resolution
\* returns what the Auth Manager's accessor returns; whatever the
\* transport, the replacement is installed only by a run called with
\* 'streamable-http'.
C19_StdioNeverUsesStore ==
    /\ transport = "stdio" =>
          /\ mpc \in {"main", "serving"}
          /\ ran \in {"none", "stdio"}
          /\ mpc = "serving" => ran = "stdio"
          /\ Attached = 0 /\ setup_calls = 0 /\ added = 0
          /\ ~facade
          /\ \A s \in Slots : StoreUnused(s) /\ token[s] = None /\ FromAuthManager(s)
    /\ facade => ran = "streamable-http"

C19_Witness ==
    /\ transport = "stdio"
    /\ mpc = "serving"
    /\ cached = None
    /\ \E s \in ServerSlots :
          pc[s] = "handler" /\ res[s].called /\ res[s].result = CachedToken

\* C20: every failure to get the middleware onto the app (the setup call
\* raised, the app provider method is missing or returned None,
\* setup_starlette_middleware got None, add_middleware raised) is logged, and
\* main does not end without having called run for the HTTP transport; a
\* server that then serves without the middleware never sets the store, and
\* every credential resolution returns what the Auth Manager's accessor
\* returns.
C20_UnavailableAppNotFatal ==
    /\ failed \subseteq logged
    /\ (transport = "streamable-http" /\ mpc \in {"starting", "serving", "exited"})
       => ran = "streamable-http"
    /\ (mpc = "serving" /\ Attached = 0)
       => \A s \in Slots : StoreUnused(s) /\ FromAuthManager(s)

C20_Witness ==
    /\ transport = "streamable-http"
    /\ mpc = "serving"
    /\ Attached = 0
    /\ {"provider_none", "add_failed"} \subseteq failed
    /\ facade
    /\ \E s \in ServerSlots :
          pc[s] = "handler" /\ res[s].called /\ res[s].result = CachedToken

AllReplaced == \A m \in Modules : bindings[m] = "replacement"

----------------------------------------------------------------------------
(* Properties of the login *)

\* the attempts that ended without a token and without an exception
FailedAttempts ==
    calls - (IF calls_at_token > 0 THEN 1 ELSE 0)
          - (IF "poll_raised" \in login_log THEN 1 ELSE 0)

LoginSafe ==
    /\ calls <= max_attempts
    /\ calls = attempt
    /\ calls_at_token > 0 => (calls = calls_at_token /\ poll_token = LoginToken)
    /\ sleeps = FailedAttempts -
                (IF lpc \in {"test", "sleep"} /\ ~Truthy(poll_token) THEN 1 ELSE 0)
    /\ slept = poll_delay * sleeps
    /\ lpc = "startup" =>
          \/ ~pipeboard_api_token
          \/ calls = 0
          \/ Truthy(poll_token)
          \/ "poll_raised" \in login_log
          \/ (calls = max_attempts /\ "timed_out" \in login_log)

\* C22: the polling loop calls get_access_token(force_refresh=True) at most
\* max_attempts (30) times, sleeps poll_delay (2) seconds after each attempt
\* that gave no token and at no other time, makes no call after the first
\* one that returned a token, and main always gets to the transport branch,
\* after max_attempts failed attempts as well.
C22_BoundedLoginPolling == []LoginSafe /\ <>(lpc = "startup")

C22_Witness ==
    /\ lpc = "startup"
    /\ calls = max_attempts
    /\ ~Truthy(poll_token)
    /\ sleeps = max_attempts
    /\ slept = 60
    /\ "timed_out" \in login_log

----------------------------------------------------------------------------
(* Properties of create_budget_schedule *)

\* C23: a call in which make_api_request raised an exception ends with a
\* JSON text, never with that exception: the object with the error
\* 'Failed to create budget schedule', the text of the exception as
\* details, the campaign_id and the params that were sent.
C23_ApiFailureIsStructured ==
    (tpc = "done" /\ tool_result.details \in ApiExceptions) =>
        /\ tool_result.kind = "json"
        /\ tool_result.error = "Failed to create budget schedule"
        /\ tool_result.campaign_id = args.campaign_id
        /\ tool_result.params_sent = api_params
        /\ api_calls = 1

C23_Witness ==
    /\ tpc = "done"
    /\ tool_result.kind = "json"
    /\ tool_result.details = "ConnectError"
    /\ tool_result.campaign_id = "'c'"
    /\ tool_result.params_sent.budget_value = "0"

\* the call of make_api_request is allowed by the arguments
CallAllowed(a) ==
    /\ a.campaign_id \notin {"None", "''"}
    /\ a.budget_value # "None"
    /\ a.budget_value_type \in {"'ABSOLUTE'", "'MULTIPLIER'"}
    /\ a.time_start # "None"
    /\ a.time_end # "None"

\* the error the checks give, taken in the order of the arguments
FirstError(a) ==
    IF a.campaign_id \in {"None", "''"} THEN "Campaign ID is required"
    ELSE IF a.budget_value = "None" THEN "Budget value is required"
    ELSE IF a.budget_value_type \in {"None", "''"} THEN "Budget value type is required"
    ELSE IF a.budget_value_type \notin {"'ABSOLUTE'", "'MULTIPLIER'"}
    THEN "Invalid budget_value_type. Must be ABSOLUTE or MULTIPLIER"
    ELSE IF a.time_start = "None" THEN "Time start is required"
    ELSE "Time end is required"

\* C30: a call of create_budget_schedule calls make_api_request at most
\* once, and does so exactly when campaign_id is non-empty, budget_value is
\* not None, budget_value_type is 'ABSOLUTE' or 'MULTIPLIER' and time_start
\* and time_end are not None, 0 being accepted for the three numbers;
\* otherwise it ends, with no call, with the error of the first check that
\* fails.
C30_ValidationPrecedesCall ==
    /\ api_calls <= 1
    /\ tpc # "idle" =>
          /\ api_calls = 1 <=> CallAllowed(args)
          /\ ~CallAllowed(args) =>
                (tpc = "done" /\ tool_result = ErrorJson(FirstError(args)))
          /\ api_calls = 1 => api_params = params(args)

C30_Witness ==
    /\ tpc = "awaiting"
    /\ api_calls = 1
    /\ args.budget_value = "0" /\ args.time_start = "0" /\ args.time_end = "0"

----------------------------------------------------------------------------
(* Properties of StreamableHTTPHandler *)

\* the handler's Authentication header, spelled either way, holds Bearer
\* values only, and at least one
BearerFound(h) ==
    /\ \E k \in {"Authentication", "authentication"} \cap DOMAIN h : Truthy(h[k])
    /\ \A k \in {"Authentication", "authentication"} \cap DOMAIN h :
           Truthy(h[k]) => IsBearer(h[k])

AppIdFound(h) == \E k \in HandlerAppNames \cap DOMAIN h : Truthy(h[k])

\* C24: handle_request answers with the JSON-RPC error -32600
\* 'Authentication required', with the two supported header schemes, the
\* documentation pointer and the id of the request body, exactly when
\* get_auth_config_from_headers finds no authentication method; with a
\* Bearer token or an X-META-APP-ID found it answers with a result that
\* carries the id, never with that error.
C24_UnauthenticatedSignal ==
    hpc = "done" =>
        LET auth_config == get_auth_config_from_headers(hheaders)
        IN  /\ (response.kind = "error" /\ response.code = -32600)
               <=> auth_config.auth_method = "none"
            /\ auth_config.auth_method = "none" =>
                  /\ response.message = "Authentication required"
                  /\ Len(response.supported_methods) = 2
                  /\ response.documentation # ""
            /\ auth_config.auth_method # "none" => response.kind = "result"
            /\ (BearerFound(hheaders) \/ AppIdFound(hheaders)) => response.kind = "result"
            /\ response.kind \in {"result", "error"}
            /\ response.id = Get(hbody, "id")

C24_Witness ==
    /\ hpc = "done"
    /\ "x-meta-access-token" \in DOMAIN hheaders
    /\ response.kind = "error"
    /\ response.code = -32600
    /\ response.id = <<"1">>

\* the Bearer step of the extractor (http_auth_integration.py lines 53-57):
\* whether it returns, and what
BearerStep(h) ==
    LET auth_header == Or(Or(Get(h, "Authentication"), Get(h, "authentication")),
                          Get(h, "authorization"))
    IN  [hit |-> IsBearer(auth_header),
         token |-> IF IsBearer(auth_header) THEN BearerText(auth_header) ELSE None]

\* C28 as stated: on every header set, get_auth_config_from_headers reports
\* auth_method 'bearer' with bearer_token t if and only if
\* extract_token_from_headers returns t through its Bearer step.
C28_HandlerAgreesWithExtractor ==
    hpc = "done" =>
        LET auth_config == get_auth_config_from_headers(hheaders)
            step == BearerStep(hheaders)
        IN  /\ auth_config.auth_method = "bearer" <=> step.hit
            /\ step.hit => (/\ auth_config.bearer_token = step.token
                            /\ extract_token_from_headers(hheaders) = step.token)

\* C29: the response of handle_request is the one a handler that was just
\* made gives to the same headers and body, whatever calls the handler
\* handled before, and the call leaves nothing in the instance.
C29_StatelessHandler ==
    /\ self_state = NewHandler
    /\ hpc = "done" =>
          response = handle_request(NewHandler, hheaders, hbody).response

C29_Witness ==
    /\ hpc = "done"
    /\ {"bearer", "custom_meta_app"} \subseteq served
    /\ get_auth_config_from_headers(hheaders).auth_method = "none"
    /\ response.kind = "error"

====
